---- MODULE Spec2Model ----
(***************************************************************************)
(* A model of pydlr (Wentzell/libdlr, python driver): the kernel           *)
(* discretization and basis selection of pydlr/kernel.py and the dlr       *)
(* handle of pydlr/pydlr.py with its transforms, convolution and Dyson     *)
(* solvers.                                                                *)
(*                                                                         *)
(* Arithmetic is exact: a real number is a normalised rational <<n, d>>,   *)
(* a complex number a record [re, im] of rationals.  A kernel value        *)
(* exp(-a)/(1+exp(-b)), which no rational arithmetic computes, is kept as  *)
(* the pair of its two exponents [a, b].                                   *)
(***************************************************************************)
EXTENDS Integers, Sequences, FiniteSets, TLC

VARIABLES
    g_lamb, g_out,           \* kernel_discretization: its argument, its result
    b_args,                  \* dlr(...): the constructor's arguments, once called
    b_err,                   \* the error the constructor raised, "" for none
    b_handle,                \* the handle the constructor returned
    b_est,                   \* the rank estimate the constructor computed
    b_ret,                   \* the last call on the handle: op, arguments, outcome
    x_h,                     \* a handle with its numbers
    x_d, x_beta,             \* the caller's block size and inverse temperature
    x_in,                    \* the array the caller starts from
    x_mid, x_fin,            \* the caller's first and second call: op, outcome
    i_pc,                    \* where an iterative dyson_dlr call stands
    i_args,                  \* its arguments: tol, verbose, lomem
    i_res,                   \* the residual of the Krylov solver's iterate
    i_iter,                  \* solver_wrapper.iter
    i_out,                   \* what the call gave its caller
    f_xi,                    \* the statistics of the handle whose buffers are watched
    f_calls,                 \* the number of public operations called so far
    f_dirty,                 \* buffers written in place by a call they existed before
    f_last,                  \* the last call: op, argument buffers, result buffer
    d_args,                  \* dlr_decomp: the matrix's shape, its rank estimate, eps_rank
    d_out,                   \* what dlr_decomp returned
    p_args,                  \* barycentric_interpolation: x, x_i, f_i, w_i
    p_out                    \* what barycentric_interpolation gave its caller

gridvars == <<g_lamb, g_out>>
buildvars == <<b_args, b_err, b_handle, b_est, b_ret>>
xfervars == <<x_h, x_d, x_beta, x_in, x_mid, x_fin>>
itervars == <<i_pc, i_args, i_res, i_iter, i_out>>
framevars == <<f_xi, f_calls, f_dirty, f_last>>
decompvars == <<d_args, d_out>>
interpvars == <<p_args, p_out>>
vars == <<g_lamb, g_out, b_args, b_err, b_handle, b_est, b_ret,
          x_h, x_d, x_beta, x_in, x_mid, x_fin,
          i_pc, i_args, i_res, i_iter, i_out,
          f_xi, f_calls, f_dirty, f_last,
          d_args, d_out, p_args, p_out>>

\* An absent value is the empty sequence, a present one the sequence of it.
None == <<>>
Some(x) == <<x>>

(***************************************************************************)
(* Bounds of the model.                                                    *)
(***************************************************************************)
\* Chebyshev points per panel (the code uses order = N = 24).
Order == 2
\* kernel_discretization is run for lamb = k/2, k in 1..MaxLamb2.
MaxLamb2 == 64
\* The largest rank estimate np.linalg.matrix_rank is let to return.
RankCap == 3
\* Arrays have blocks of d x d entries, d in 1..MaxDim.
MaxDim == 2
\* The Krylov solver's iteration budget (scipy's maxiter).
MaxIter == 3
\* Residuals are counted in levels 0..MaxRes, tolerances are levels too.
MaxRes == 5
\* The number of public operations a caller makes in a row on one handle.
MaxCalls == 2
\* barycentric_interpolation is called on at most MaxNodes nodes and, by a
\* caller of its own choice of points, at most MaxQuery query points
\* dlr_decomp on its own is followed for ranks up to MaxSelect
MaxSelect == 2
MaxNodes == 3
MaxQuery == 3

(***************************************************************************)
(* Exact rational arithmetic.                                              *)
(***************************************************************************)
Abs(n) == IF n < 0 THEN -n ELSE n

RECURSIVE Gcd(_, _)
Gcd(a, b) == IF b = 0 THEN a ELSE Gcd(b, a % b)

Rat(n, d) ==
    LET s == IF d < 0 THEN -1 ELSE 1
        g == Gcd(Abs(n), Abs(d))
    IN  <<(s * n) \div g, (s * d) \div g>>

RInt(n) == <<n, 1>>
RZero == <<0, 1>>
ROne == <<1, 1>>
RHalf == <<1, 2>>
RAdd(x, y) ==
    LET g == Gcd(x[2], y[2])
    IN  Rat(x[1] * (y[2] \div g) + y[1] * (x[2] \div g), (x[2] \div g) * y[2])
RNeg(x) == <<-x[1], x[2]>>
RSub(x, y) == RAdd(x, RNeg(y))
RMul(x, y) ==
    LET g1 == Gcd(Abs(x[1]), y[2])
        g2 == Gcd(Abs(y[1]), x[2])
    IN  Rat((x[1] \div g1) * (y[1] \div g2), (x[2] \div g2) * (y[2] \div g1))
RDiv(x, y) == IF y[1] < 0 THEN RMul(x, <<-y[2], -y[1]>>) ELSE RMul(x, <<y[2], y[1]>>)
RLt(x, y) == RSub(x, y)[1] < 0
RLe(x, y) == RSub(x, y)[1] <= 0
RAbs(x) == <<Abs(x[1]), x[2]>>

RECURSIVE Pow2(_)
Pow2(k) == IF k = 0 THEN 1 ELSE 2 * Pow2(k - 1)

Max(a, b) == IF a >= b THEN a ELSE b
Min(a, b) == IF a <= b THEN a ELSE b

Reverse(s) == [k \in 1..Len(s) |-> s[Len(s) + 1 - k]]

RECURSIVE Concat(_)
Concat(ss) == IF ss = <<>> THEN <<>> ELSE Head(ss) \o Concat(Tail(ss))

(***************************************************************************)
(* Exact complex arithmetic, vectors and matrices (a matrix is the         *)
(* sequence of its rows).                                                  *)
(***************************************************************************)
Cx(re, im) == [re |-> re, im |-> im]
CReal(r) == Cx(r, RZero)
CInt(n) == Cx(RInt(n), RZero)
CZero == CInt(0)
COne == CInt(1)
CImag == Cx(RZero, ROne)
CAdd(x, y) == Cx(RAdd(x.re, y.re), RAdd(x.im, y.im))
CNeg(x) == Cx(RNeg(x.re), RNeg(x.im))
CSub(x, y) == CAdd(x, CNeg(y))
CMul(x, y) ==
    Cx(RSub(RMul(x.re, y.re), RMul(x.im, y.im)),
       RAdd(RMul(x.re, y.im), RMul(x.im, y.re)))
\* x / y = x conj(y) / |y|^2, with y = (a + i c) / l for integers a, c, l.
CDiv(x, y) ==
    LET l == (y.re[2] \div Gcd(y.re[2], y.im[2])) * y.im[2]
        a == RInt(y.re[1] * (l \div y.re[2]))
        c == RInt(y.im[1] * (l \div y.im[2]))
        s == Rat(l, a[1] * a[1] + c[1] * c[1])
    IN  Cx(RMul(RAdd(RMul(x.re, a), RMul(x.im, c)), s),
           RMul(RSub(RMul(x.im, a), RMul(x.re, c)), s))
CConj(x) == Cx(x.re, RNeg(x.im))
\* |re| + |im|, the magnitude LAPACK's pivot search compares.
CAbs1(x) == RAdd(RAbs(x.re), RAbs(x.im))

\* The same vector and the same matrix, held as tuples of computed entries.
Tup(v) == SubSeq(v, 1, Len(v))
Mat(M) == Tup([i \in 1..Len(M) |-> Tup(M[i])])

VAdd(u, v) == Tup([k \in 1..Len(u) |-> CAdd(u[k], v[k])])
VSub(u, v) == Tup([k \in 1..Len(u) |-> CSub(u[k], v[k])])
VScale(c, v) == Tup([k \in 1..Len(v) |-> CMul(c, v[k])])
VZero(m) == Tup([k \in 1..m |-> CZero])

RECURSIVE CSum(_)
CSum(v) == IF v = <<>> THEN CZero ELSE CAdd(Head(v), CSum(Tail(v)))

NCols(A) == IF A = <<>> THEN 0 ELSE Len(A[1])
MatMul(A, B) ==
    Mat([i \in 1..Len(A) |-> [j \in 1..NCols(B) |->
        CSum(Tup([k \in 1..Len(B) |-> CMul(A[i][k], B[k][j])]))]])
MatAdd(A, B) == Tup([i \in 1..Len(A) |-> VAdd(A[i], B[i])])
MatSub(A, B) == Tup([i \in 1..Len(A) |-> VSub(A[i], B[i])])
MatScale(c, A) == Tup([i \in 1..Len(A) |-> VScale(c, A[i])])
MatConj(A) == Mat([i \in 1..Len(A) |-> [j \in 1..Len(A[i]) |-> CConj(A[i][j])]])
Transpose(A) == Mat([j \in 1..NCols(A) |-> [i \in 1..Len(A) |-> A[i][j]]])
Eye(n) == Mat([i \in 1..n |-> [j \in 1..n |-> IF i = j THEN COne ELSE CZero]])
SwapRows(A, i, j) ==
    Tup([k \in 1..Len(A) |-> IF k = i THEN A[j] ELSE IF k = j THEN A[i] ELSE A[k]])

(***************************************************************************)
(* scipy.linalg.lu_factor / lu_solve and np.linalg.solve (LAPACK getrf,    *)
(* getrs, gesv): LU with partial pivoting.                                 *)
(***************************************************************************)
\* The first row i >= k with the largest |A[i][k]|.
RECURSIVE PivotRow(_, _, _, _)
PivotRow(A, k, i, best) ==
    IF i > Len(A) THEN best
    ELSE PivotRow(A, k, i + 1,
                  IF RLt(CAbs1(A[best][k]), CAbs1(A[i][k])) THEN i ELSE best)

RECURSIVE LUFrom(_, _, _)
LUFrom(A, piv, k) ==
    IF k > Len(A) THEN [lu |-> A, piv |-> piv]
    ELSE LET n == Len(A)
             p == PivotRow(A, k, k, k)
             S == SwapRows(A, k, p)
             E == IF S[k][k] = CZero THEN S
                  ELSE Mat([i \in 1..n |->
                          IF i <= k THEN S[i]
                          ELSE LET f == CDiv(S[i][k], S[k][k])
                               IN  [j \in 1..n |->
                                      IF j < k THEN S[i][j]
                                      ELSE IF j = k THEN f
                                      ELSE CSub(S[i][j], CMul(f, S[k][j]))]])
         IN  LUFrom(E, Append(piv, p), k + 1)

\* lu_factor(A): the factors L (unit lower) and U in one matrix, and the
\* row interchanges piv.
lu_factor(A) == LUFrom(A, <<>>, 1)

RECURSIVE ApplyPiv(_, _, _)
ApplyPiv(B, piv, k) ==
    IF k > Len(piv) THEN B ELSE ApplyPiv(SwapRows(B, k, piv[k]), piv, k + 1)

\* L y = b, rows 1..n in turn.
RECURSIVE ForwardSub(_, _, _)
ForwardSub(lu, B, Y) ==
    LET i == Len(Y) + 1
    IN  IF i > Len(lu) THEN Y
        ELSE LET RECURSIVE Acc(_, _)
                 Acc(j, v) == IF j >= i THEN v
                              ELSE Acc(j + 1, VSub(v, VScale(lu[i][j], Y[j])))
             IN  ForwardSub(lu, B, Append(Y, Acc(1, B[i])))

\* U x = y, rows n..1 in turn; X holds the rows i+1..n already solved.
RECURSIVE BackSub(_, _, _)
BackSub(lu, Y, X) ==
    LET n == Len(lu)
        i == n - Len(X)
    IN  IF i < 1 THEN X
        ELSE LET RECURSIVE Acc(_, _)
                 Acc(j, v) == IF j > n THEN v
                              ELSE Acc(j + 1, VSub(v, VScale(lu[i][j], X[j - i])))
                 rhs == Acc(i + 1, Y[i])
             IN  BackSub(lu, Y,
                    <<Tup([k \in 1..Len(rhs) |-> CDiv(rhs[k], lu[i][i])])>> \o X)

\* A solve that skips the row interchanges.
lu_solve_no_pivot(lu, piv, B) == BackSub(lu, ForwardSub(lu, B, <<>>), <<>>)

\* lu_solve((lu, piv), b): b's trailing axes are the right-hand sides (the
\* array is the matrix of its rows, each row the flattened block), solved
\* column by column; the result is a new array of b's shape.
lu_solve(lu, piv, B) ==
    BackSub(lu, ForwardSub(lu, ApplyPiv(B, piv, 1), <<>>), <<>>)

Singular(lu) == \E i \in 1..Len(lu) : lu[i][i] = CZero

\* np.linalg.solve(D, b): LinAlgError for a singular D.
linalg_solve(D, b) ==
    LET f == lu_factor(D)
    IN  IF Singular(f.lu) THEN [err |-> "LinAlgError", val |-> None]
        ELSE [err |-> "", val |-> Some(lu_solve(f.lu, f.piv, b))]

(***************************************************************************)
(* pydlr/kernel.py                                                         *)
(***************************************************************************)

\* x = cos(pi (2j+1)/(2N))[::-1], j = 0..N-1: the N first-kind Chebyshev
\* points, increasing, inside (-1, 1) and antisymmetric.  cos has no exact
\* value here: the reversed point -cos(pi (2j+1)/(2N)) = sin(pi u / 2) with
\* u = (2j+1-N)/N is taken at its chord u, which keeps the order, the open
\* range and the antisymmetry of the points.  Index k = j + 1.
chebyschev_collocation_points_1st_kind(N) ==
    [k \in 1..N |-> Rat(2 * (k - 1) + 1 - N, N)]

\* w_i = (-1)**j * sin(pi (2j+1)/(2N)), j = 0..N-1: the barycentric weights
\* of the N first-kind Chebyshev points, up to a common factor.  sin has no
\* exact value here: the weights are taken as the barycentric weights
\* 1/prod_{j # k} (x_k - x_j) of the points above, times the sign that makes
\* the first one positive; they alternate in sign and none is zero, as the
\* code's.
RECURSIVE NodeProduct(_, _, _)
NodeProduct(x_i, k, j) ==
    IF j = 0 THEN ROne
    ELSE IF j = k THEN NodeProduct(x_i, k, j - 1)
         ELSE RMul(RSub(x_i[k], x_i[j]), NodeProduct(x_i, k, j - 1))

chebyschev_barycentric_weights_1st_kind(N) ==
    LET x_i == chebyschev_collocation_points_1st_kind(N)
        sgn == IF N % 2 = 1 THEN ROne ELSE RInt(-1)
    IN  [k \in 1..N |-> RDiv(sgn, NodeProduct(x_i, k, N))]

\* A floating-point quotient that is no number: 0/0 and inf/inf give nan;
\* a non-zero number over 0 gives an infinity.
FNaN == <<0, 0>>
FInf == <<1, 0>>
FDiv(x, y) ==
    IF y = RZero THEN (IF x = RZero THEN FNaN ELSE FInf) ELSE RDiv(x, y)

RECURSIVE RSumTo(_, _)
RSumTo(v, k) == IF k = 0 THEN RZero ELSE RAdd(v[k], RSumTo(v, k - 1))

\* np.argwhere(b): the indices at which b holds, in order.
ArgWhere(b) == SelectSeq([k \in 1..Len(b) |-> k], LAMBDA k : b[k])

\* np.argwhere(x_i == x), x_i of N >= 2 nodes and x of M query points.  The
\* comparison is elementwise, position by position, when M = N, and of
\* every node with the one query point when M = 1.  For other shapes the
\* arrays do not broadcast: numpy before 1.25 gives the scalar False (no
\* index), numpy from 1.25 on raises ValueError.
NodesEqual(x_i, x) ==
    IF Len(x) = Len(x_i)
    THEN {[err |-> "", idxs |-> ArgWhere([k \in 1..Len(x_i) |-> x_i[k] = x[k]])]}
    ELSE IF Len(x) = 1
         THEN {[err |-> "", idxs |-> ArgWhere([k \in 1..Len(x_i) |-> x_i[k] = x[1]])]}
         ELSE {[err |-> "", idxs |-> <<>>], [err |-> "ValueError", idxs |-> <<>>]}

\* sum_i q_i f_i / sum_i q_i at one query point xm, q_i = w_i / (xm - x_i).
\* At a node, q_i is an infinity there and the quotient of the sums is nan.
Interpolant(xm, x_i, f_i, w_i) ==
    IF \E k \in 1..Len(x_i) : x_i[k] = xm THEN FNaN
    ELSE LET q == [k \in 1..Len(x_i) |-> RDiv(w_i[k], RSub(xm, x_i[k]))]
             qf == [k \in 1..Len(x_i) |-> RMul(q[k], f_i[k])]
         IN  FDiv(RSumTo(qf, Len(x_i)), RSumTo(q, Len(x_i)))

\* barycentric_interpolation(x, x_i, f_i, w_i), f_i of one channel: what the
\* call may end in.  With an index in idxs it returns f_i[idxs[0]], an array
\* of one entry; else the quotient of sums at every query point.
barycentric_interpolation(x, x_i, f_i, w_i) ==
    {IF e.err # "" THEN [err |-> e.err, val |-> None]
     ELSE IF Len(e.idxs) > 0 THEN [err |-> "", val |-> Some(<<f_i[e.idxs[1]]>>)]
     ELSE [err |-> "",
           val |-> Some([m \in 1..Len(x) |-> Interpolant(x[m], x_i, f_i, w_i)])]
     : e \in NodesEqual(x_i, x)}

\* The least k with 2^k >= lamb, for lamb > 1; 0 for 0 < lamb <= 1, where
\* ceil(log2 lamb) <= 0 and the max(., 1) of gridparams decides.
RECURSIVE CeilLog2From(_, _)
CeilLog2From(lamb, k) ==
    IF RLe(lamb, RInt(Pow2(k))) THEN k ELSE CeilLog2From(lamb, k + 1)

CeilLog2(lamb) == CeilLog2From(lamb, 0)

\* gridparams(lamb, order), for lamb > 0.
gridparams(lamb, order) ==
    LET npt == Max(CeilLog2(lamb) - 2, 1)
        npo == Max(CeilLog2(lamb), 1)
    IN  [order |-> order, npt |-> npt, npo |-> npo,
         nt |-> 2 * order * npt, no |-> 2 * order * npo]

\* One kernel value K(tau, omega), as the exponents [a, b] of
\* exp(-a)/(1+exp(-b)):  omega > 0: exp(-tau w)/(1+exp(-w));
\* omega <= 0: exp((1-tau) w)/(1+exp(w)).
kernel1(tau, omega) ==
    IF RLt(RZero, omega)
    THEN [a |-> RMul(tau, omega), b |-> omega]
    ELSE [a |-> RNeg(RMul(RSub(ROne, tau), omega)), b |-> RNeg(omega)]

\* kernel(tau, omega): the len(tau) x len(omega) matrix.
kernel(tau, omega) ==
    [i \in 1..Len(tau) |-> [j \in 1..Len(omega) |-> kernel1(tau[i], omega[j])]]

\* a + (b - a)*0.5*(x_i + 1): the collocation points mapped into [a, b].
PanelPoints(a, b, x_i) ==
    [k \in 1..Len(x_i) |->
        RAdd(a, RMul(RMul(RSub(b, a), RHalf), RAdd(x_i[k], ROne)))]

\* t_panel_break_pt: zeros(npt + 1), then [1:] = 0.5 ** (npt - i).
TPanelBreakPt(npt) ==
    [k \in 1..(npt + 1) |-> IF k = 1 THEN RZero ELSE Rat(1, Pow2(npt - (k - 2)))]

\* Breakpoints whose negative half is not reversed, [:npo] = -[npo+1:].
WPanelBreakPtNoReverse(lamb, npo) ==
    [k \in 1..(2 * npo + 1) |->
        IF k = npo + 1 THEN RZero
        ELSE IF k > npo + 1
             THEN RMul(lamb, Rat(1, Pow2(npo - (k - npo - 2) - 1)))
             ELSE RNeg(RMul(lamb, Rat(1, Pow2(npo - (k - 1) - 1))))]

\* w_panel_break_pt: zeros(2 npo + 1), [npo+1:] = lamb * 0.5 ** (npo - j - 1),
\* [:npo] = -[npo+1:][::-1].
WPanelBreakPt(lamb, npo) ==
    [k \in 1..(2 * npo + 1) |->
        IF k = npo + 1 THEN RZero
        ELSE IF k > npo + 1
             THEN RMul(lamb, Rat(1, Pow2(npo - (k - npo - 2) - 1)))
             ELSE RNeg(RMul(lamb, Rat(1, Pow2(npo - (npo - k) - 1))))]

\* t = zeros(nt); only the panels i < npt, the first nt/2 entries, are filled.
TGrid(gp, x_i) ==
    LET brk == TPanelBreakPt(gp.npt)
        filled == Concat([i \in 1..gp.npt |-> PanelPoints(brk[i], brk[i + 1], x_i)])
    IN  [k \in 1..gp.nt |-> IF k <= Len(filled) THEN filled[k] ELSE RZero]

WGrid(lamb, gp, x_i) ==
    LET brk == WPanelBreakPt(lamb, gp.npo)
    IN  Concat([i \in 1..(2 * gp.npo) |-> PanelPoints(brk[i], brk[i + 1], x_i)])

\* kmat[::-1, ::-1]
FlipBoth(m) == Reverse([i \in 1..Len(m) |-> Reverse(m[i])])

\* A stacking that mirrors the rows only, kmat[::-1, :].
KmatStackRowsOnly(k) == k \o Reverse(k)

\* kmat = np.vstack((kmat, kmat[::-1, ::-1]))
KmatStack(k) == k \o FlipBoth(k)

\* kernel_discretization(lamb): kmat, t, w (the error estimate aside), and
\* with them the panel counts and the breakpoints the grids were built on.
kernel_discretization(lamb) ==
    LET gp == gridparams(lamb, Order)
        x_i == chebyschev_collocation_points_1st_kind(Order)
        t == TGrid(gp, x_i)
        w == WGrid(lamb, gp, x_i)
    IN  [kmat |-> KmatStack(kernel(SubSeq(t, 1, gp.nt \div 2), w)),
         t |-> t, w |-> w, nt |-> gp.nt, no |-> gp.no,
         npt |-> gp.npt, npo |-> gp.npo,
         t_panel_break_pt |-> TPanelBreakPt(gp.npt),
         w_panel_break_pt |-> WPanelBreakPt(lamb, gp.npo)]

\* The first r pivots a column-pivoted QR of a matrix with n columns may
\* return: any r distinct column indices, in any order (the pivot order is
\* the numerical library's).
PivotPrefixes(n, r) ==
    {p \in [1..r -> 1..n] : \A i \in 1..r : \A j \in 1..r : i # j => p[i] # p[j]}

\* The ranks np.linalg.matrix_rank(kmat, tol = eps*lamb) may return for an
\* nt x no matrix: the singular values are not computed here.
RankEstimates(nt, no) == 0..Min(RankCap, Min(nt, no))

\* scipy_qr(A, pivoting=True, mode='r')[1][:k] for a matrix A of n columns:
\* the pivot list is a permutation of the n column indices, its slice [:k]
\* the first min(k, n) of them.
PivotHead(n, k) == PivotPrefixes(n, Min(k, n))

\* A selection that keeps the whole second pivot list (no P_t[:eps_rank]).
dlr_decomp_whole_P_t(nt, no, est, eps_rank) ==
    LET r == IF eps_rank = None THEN est ELSE eps_rank[1]
    IN  {[P_o |-> po, P_t |-> pt, rank |-> r] :
            po \in PivotHead(no, r), pt \in PivotHead(nt, nt)}

\* A selection that pivots the rows first: the factorizations of kmat.T and
\* of kmat[P_o, :].
dlr_decomp_rows_first(nt, no, est, eps_rank) ==
    LET r == IF eps_rank = None THEN est ELSE eps_rank[1]
    IN  {[P_o |-> po, P_t |-> pt, rank |-> r] :
            po \in PivotHead(nt, r), pt \in PivotHead(no, r)}

\* dlr_decomp(kmat, eps, lamb, eps_rank=None), kmat of shape (nt, no) and est
\* the value np.linalg.matrix_rank(kmat, tol=eps*lamb) has: what the call
\* may return.  eps_rank is the caller's when given, else est; P_o the first
\* eps_rank pivots of kmat (no columns), P_t the first eps_rank pivots of
\* kmat[:, P_o].T (nt columns).
dlr_decomp(nt, no, est, eps_rank) ==
    LET r == IF eps_rank = None THEN est ELSE eps_rank[1]
    IN  {[P_o |-> po, P_t |-> pt, rank |-> r] :
            po \in PivotHead(no, r), pt \in PivotHead(nt, r)}

(***************************************************************************)
(* KernelInterpolativeDecoposition: imported by pydlr.py from kernel.py,   *)
(* which does not hold it.  Its behaviour is the specification's: the      *)
(* configuration is validated, the kernel discretized, the basis selected, *)
(* the rank checked against max_rank, the node sets read off the grids.    *)
(***************************************************************************)
\* A validation that lets lamb = 0 and eps = 0 pass.
ConfigurationOkNonNegative(lamb, eps) == RLe(RZero, lamb) /\ RLe(RZero, eps)

\* "ConfigurationError (non-positive scale/accuracy ...)"
ConfigurationOk(lamb, eps) == RLt(RZero, lamb) /\ RLt(RZero, eps)

\* A rank check that is off by one.
RankOverflowOffByOne(rank, max_rank) == rank > max_rank + 1

\* "RankOverflowError (estimated kernel rank exceeds max_rank)"
RankOverflow(rank, max_rank) == rank > max_rank

KidError(e) == [err |-> e]

\* The members of a built decomposition: the node sets are subsets of the
\* grids, dlrrf = om[oidx], dlrit = t[tidx]; T_lx = kmat[tidx][:, oidx].
KidMembers(disc, dec) ==
    [err |-> "", rank |-> dec.rank, t |-> disc.t, om |-> disc.w,
     kmat |-> disc.kmat, oidx |-> dec.P_o, tidx |-> dec.P_t,
     dlrrf |-> [k \in 1..dec.rank |-> disc.w[dec.P_o[k]]],
     dlrit |-> [k \in 1..dec.rank |-> disc.t[dec.P_t[k]]],
     T_lx |-> [l \in 1..dec.rank |-> [x \in 1..dec.rank |->
                  disc.kmat[dec.P_t[l]][dec.P_o[x]]]]]

\* What KernelInterpolativeDecoposition(lamb, eps, max_rank) may end in, with
\* the rank estimate it computed on the way: an error, or the members for
\* one of the pivot orders the two factorizations may return.
KidOutcomes(lamb, eps, max_rank) ==
    IF ~ConfigurationOk(lamb, eps)
    THEN {[kid |-> KidError("ConfigurationError"), est |-> None]}
    ELSE LET disc == kernel_discretization(lamb)
         IN  UNION {
               IF RankOverflow(r, max_rank)
               THEN {[kid |-> KidError("RankOverflowError"), est |-> Some(r)]}
               ELSE {[kid |-> KidMembers(disc, dec), est |-> Some(r)] :
                       dec \in dlr_decomp(disc.nt, disc.no, r, None)}
               : r \in RankEstimates(disc.nt, disc.no)}

(***************************************************************************)
(* pydlr/pydlr.py: class dlr                                               *)
(***************************************************************************)
Sign(x) == IF x > 0 THEN 1 ELSE IF x < 0 THEN -1 ELSE 0

\* get_tau_over_beta(): self.dlrit
get_tau_over_beta(h) == h.dlrit

\* get_tau(beta): get_tau_over_beta() * beta
get_tau(h, beta) ==
    [k \in 1..Len(get_tau_over_beta(h)) |-> RMul(get_tau_over_beta(h)[k], beta)]

\* W_xx = 1. / (I + w_x[:, None] - w_x[None, :]) - I
W_xx_of(w_x) ==
    [i \in 1..Len(w_x) |-> [j \in 1..Len(w_x) |->
        LET I == IF i = j THEN ROne ELSE RZero
        IN  RSub(RDiv(ROne, RAdd(I, RSub(w_x[i], w_x[j]))), I)]]

\* dlr.__init__: the statistics sign and the scale are kept, the members
\* of the decomposition copied, the auxiliary W_xx and k1_x = -K(1, w_x)
\* computed (a negated kernel value is the record [minus |-> K]).  An
\* exception of the decomposition leaves no handle.  The factored
\* operators and TtT_xx, which need the kernel's numbers, are modelled with
\* the transforms further down.
dlr_init(lamb, eps, xi, kid) ==
    IF kid.err # "" THEN [err |-> kid.err, handle |-> None]
    ELSE [err |-> "",
          handle |-> Some(
            [xi |-> Sign(xi), lamb |-> lamb, eps |-> eps, rank |-> kid.rank,
             t |-> kid.t, om |-> kid.om, kmat |-> kid.kmat,
             dlrit |-> kid.dlrit, dlrrf |-> kid.dlrrf, T_lx |-> kid.T_lx,
             W_xx |-> W_xx_of(kid.dlrrf),
             k1_x |-> [x \in 1..kid.rank |->
                        [minus |-> kernel1(ROne, kid.dlrrf[x])]]])]

\* eval_dlr_tau without its assertion.
eval_dlr_tau_unguarded(h, G_x, tau, beta) ==
    [err |-> "", val |-> Some(<<>>)]

\* eval_dlr_tau(G_xaa, tau, beta): for bosons the assertion fails.  For
\* fermions, with w_x = dlrrf/beta, the value at each tau is the sum over the
\* basis of G_x times exp(-tau w)/(1+exp(-beta w)) (w > 0) or
\* exp((beta-tau) w)/(exp(beta w)+1) (w <= 0): kept as the list of its terms
\* [g, a, b], the positive frequencies first.
eval_dlr_tau(h, G_x, tau, beta) ==
    IF h.xi # -1 THEN [err |-> "AssertionError", val |-> None]
    ELSE
      LET w_x == [x \in 1..h.rank |-> RDiv(h.dlrrf[x], beta)]
          p == SelectSeq([x \in 1..h.rank |-> x], LAMBDA x : RLt(RZero, w_x[x]))
          m == SelectSeq([x \in 1..h.rank |-> x], LAMBDA x : RLe(w_x[x], RZero))
          TermP(t, x) == [g |-> G_x[x], a |-> RMul(t, w_x[x]),
                          b |-> RMul(beta, w_x[x])]
          TermM(t, x) == [g |-> G_x[x],
                          a |-> RNeg(RMul(RSub(beta, t), w_x[x])),
                          b |-> RNeg(RMul(beta, w_x[x]))]
      IN  [err |-> "",
           val |-> Some([k \in 1..Len(tau) |->
                     [i \in 1..Len(p) |-> TermP(tau[k], p[i])]
                     \o [i \in 1..Len(m) |-> TermM(tau[k], m[i])]])]

(***************************************************************************)
(* The handle with its numbers.  An array of shape (n, d, d) is the n x d*d *)
(* matrix of its flattened blocks, entry (a, b) of a block at (a-1)*d + b;  *)
(* a reshape to (n*d, d) or back regroups the same entries.                 *)
(***************************************************************************)
BlockIdx(d, a, b) == (a - 1) * d + b

\* np.transpose(G, axes=(0, 2, 1))
BlockTranspose(d, G) ==
    Mat([x \in 1..Len(G) |-> [k \in 1..(d * d) |->
        G[x][BlockIdx(d, ((k - 1) % d) + 1, ((k - 1) \div d) + 1)]]])

\* np.matmul(A_xaa, B_xaa): the blocks multiplied, x by x.
BlockMatMul(d, A, B) ==
    Mat([x \in 1..Len(A) |-> [k \in 1..(d * d) |->
        LET a == ((k - 1) \div d) + 1
            c == ((k - 1) % d) + 1
        IN  CSum(Tup([b \in 1..d |->
                CMul(A[x][BlockIdx(d, a, b)], B[x][BlockIdx(d, b, c)])]))]])

\* k_x[:, None, None] * A_xaa
RowScale(k_x, A) == Tup([x \in 1..Len(A) |-> VScale(k_x[x], A[x])])

\* G.reshape((n*d, d)) and R.reshape((n, d, d))
Reshape3to2(d, G) ==
    Mat([r \in 1..(Len(G) * d) |-> [b \in 1..d |->
        G[((r - 1) \div d) + 1][BlockIdx(d, ((r - 1) % d) + 1, b)]]])
Reshape2to3(d, R) ==
    Mat([x \in 1..(Len(R) \div d) |-> [k \in 1..(d * d) |->
        R[(x - 1) * d + ((k - 1) \div d) + 1][((k - 1) % d) + 1]]])

RealMat(M) == Mat([i \in 1..Len(M) |-> [j \in 1..Len(M[i]) |-> CReal(M[i][j])]])

\* The members KernelInterpolativeDecoposition hands to the handle, for a
\* fit matrix T_lx and a Matsubara fit matrix T_qx: each dense matrix comes
\* with its pivoted LU factorization (lu_factor).  K1 holds the kernel
\* values K(1, dlrrf).
NumericMembers(k) ==
    LET ft == lu_factor(k.T_lx)
        fq == lu_factor(k.T_qx)
    IN  [rank |-> Len(k.dlrrf), dlrit |-> k.dlrit, dlrrf |-> k.dlrrf, K1 |-> k.K1,
         T_lx |-> k.T_lx, dlrit2cf |-> ft.lu, it2cfpiv |-> ft.piv,
         T_qx |-> k.T_qx, dlrmf2cf |-> fq.lu, mf2cfpiv |-> fq.piv]

\* A time-to-coefficient transform that skips the row interchanges.
dlr_from_tau_no_pivot(h, G_laa) == lu_solve_no_pivot(h.dlrit2cf, h.it2cfpiv, G_laa)

\* dlr_from_tau(G_laa): lu_solve((dlrit2cf, it2cfpiv), G_laa)
dlr_from_tau(h, G_laa) == lu_solve(h.dlrit2cf, h.it2cfpiv, G_laa)

\* A coefficient-to-time transform contracting T_lx over its first axis.
tau_from_dlr_axes00(h, G_xaa) == MatMul(Transpose(h.T_lx), G_xaa)

\* tau_from_dlr(G_xaa): np.tensordot(T_lx, G_xaa, axes=(1, 0))
tau_from_dlr(h, G_xaa) == MatMul(h.T_lx, G_xaa)

\* dlr_from_matsubara(G_qaa, beta): lu_solve((dlrmf2cf, mf2cfpiv), G_qaa.conj() / beta)
dlr_from_matsubara(h, G_qaa, beta) ==
    lu_solve(h.dlrmf2cf, h.mf2cfpiv,
             MatScale(CDiv(COne, CReal(beta)), MatConj(G_qaa)))

\* matsubara_from_dlr(G_xaa, beta): beta * tensordot(T_qx, G_xaa), the block
\* axes transposed (the array has three axes), then conjugated.
matsubara_from_dlr(h, d, G_xaa, beta) ==
    MatConj(BlockTranspose(d, MatScale(CReal(beta), MatMul(h.T_qx, G_xaa))))

\* dlr.__init__ on the numbers: the members are copied; tau_l = get_tau(1.),
\* W_xx = 1/(I + w_x[:, None] - w_x[None, :]) - I, k1_x = -K(1, w_x) and
\* TtT_xx = dlr_from_tau(tau_l[:, None] * T_lx) are cached.
dlr_init_numeric(kid) ==
    LET tau_l == get_tau(kid, ROne)
        tT == Tup([l \in 1..kid.rank |-> VScale(CReal(tau_l[l]), kid.T_lx[l])])
    IN  [rank |-> kid.rank, dlrit |-> kid.dlrit, dlrrf |-> kid.dlrrf,
         T_lx |-> kid.T_lx, dlrit2cf |-> kid.dlrit2cf, it2cfpiv |-> kid.it2cfpiv,
         T_qx |-> kid.T_qx, dlrmf2cf |-> kid.dlrmf2cf, mf2cfpiv |-> kid.mf2cfpiv,
         W_xx |-> RealMat(W_xx_of(kid.dlrrf)),
         k1_x |-> Tup([x \in 1..kid.rank |-> CReal(RNeg(kid.K1[x]))]),
         TtT_xx |-> dlr_from_tau(kid, tT)]

\* convolution(A_xaa, B_xaa, beta)
convolution(h, d, A_xaa, B_xaa, beta) ==
    LET WA_xaa == MatMul(Transpose(h.W_xx), A_xaa)
        C1 == BlockMatMul(d, WA_xaa, B_xaa)
        WB_xaa == MatMul(Transpose(h.W_xx), B_xaa)
        C2 == MatAdd(C1, BlockMatMul(d, A_xaa, WB_xaa))
        AB_xaa == BlockMatMul(d, A_xaa, B_xaa)
        C3 == MatAdd(C2, RowScale(h.k1_x, AB_xaa))
        C4 == MatAdd(C3, MatMul(h.TtT_xx, AB_xaa))
    IN  MatScale(CReal(beta), C4)

\* A convolution matrix whose first term takes W_xx untransposed, as
\* einsum('xy,yab->xyab', W_xx, A_xaa) would.
convolution_matrix_W_untransposed(h, d, A_xaa, beta) ==
    LET n == Len(A_xaa)
        Q_xaa == MatAdd(MatMul(Transpose(h.W_xx), A_xaa), RowScale(h.k1_x, A_xaa))
        C_xxaa(x, y, a, b) ==
            CAdd(CAdd(CMul(h.W_xx[x][y], A_xaa[y][BlockIdx(d, a, b)]),
                      CMul(h.TtT_xx[x][y], A_xaa[y][BlockIdx(d, a, b)])),
                 IF x = y THEN Q_xaa[y][BlockIdx(d, a, b)] ELSE CZero)
    IN  Mat([r \in 1..(n * d) |-> [c \in 1..(n * d) |->
            CMul(CReal(beta),
                 C_xxaa(((r - 1) \div d) + 1, ((c - 1) \div d) + 1,
                        ((r - 1) % d) + 1, ((c - 1) % d) + 1))]])

\* convolution_matrix(A_xaa, beta): C_xaxa, as the (n*d) x (n*d) matrix its
\* callers reshape it to, row (x, a), column (y, b).
convolution_matrix(h, d, A_xaa, beta) ==
    LET n == Len(A_xaa)
        Q_xaa == MatAdd(MatMul(Transpose(h.W_xx), A_xaa), RowScale(h.k1_x, A_xaa))
        C_xxaa(x, y, a, b) ==
            CAdd(CAdd(CMul(h.W_xx[y][x], A_xaa[x][BlockIdx(d, a, b)]),
                      CMul(h.TtT_xx[x][y], A_xaa[y][BlockIdx(d, a, b)])),
                 IF x = y THEN Q_xaa[y][BlockIdx(d, a, b)] ELSE CZero)
    IN  Mat([r \in 1..(n * d) |-> [c \in 1..(n * d) |->
            CMul(CReal(beta),
                 C_xxaa(((r - 1) \div d) + 1, ((c - 1) \div d) + 1,
                        ((r - 1) % d) + 1, ((c - 1) % d) + 1))]])

\* convolution_dense(A_xaa, B_xaa, beta)
convolution_dense(h, d, A_xaa, B_xaa, beta) ==
    Reshape2to3(d, MatMul(convolution_matrix(h, d, A_xaa, beta), Reshape3to2(d, B_xaa)))

\* The right-hand side taken on the time grid, as in the formulation the
\* code keeps commented out, against the coefficient-space matrix.
dyson_rhs_tau(h, g0_iaa) == g0_iaa

\* g0_xaa = dlr_from_tau(g0_iaa), the right-hand side b_Aa of the direct solve.
dyson_rhs(h, g0_iaa) == dlr_from_tau(h, g0_iaa)

\* dyson_dlr(H_aa, Sigma_xaa, beta), direct mode, given
\* g0_iaa = free_greens_function_tau(H_aa, beta): the eigendecomposition and
\* the exponentials behind g0_iaa are not computed here, the array is any.
dyson_dlr(h, d, g0_iaa, Sigma_xaa, beta) ==
    LET n == Len(Sigma_xaa)
        g0_xaa == dlr_from_tau(h, g0_iaa)
        g0Sigma_xaa == convolution(h, d, g0_xaa, Sigma_xaa, beta)
        D_AA == MatSub(Eye(n * d), convolution_matrix(h, d, g0Sigma_xaa, beta))
        b_Aa == Reshape3to2(d, dyson_rhs(h, g0_iaa))
        r == linalg_solve(D_AA, b_Aa)
    IN  IF r.err # "" THEN r
        ELSE [err |-> "", val |-> Some(Reshape2to3(d, r.val[1]))]

(***************************************************************************)
(* The kernel grid on its own: kernel_discretization applied to a scale.   *)
(***************************************************************************)
GridLambs == {Rat(k, 2) : k \in 1..MaxLamb2}

GridIdle == g_lamb = RZero /\ g_out = None
BuildIdle ==
    b_args = None /\ b_err = "" /\ b_handle = None /\ b_est = None /\ b_ret = None

XferIdle ==
    /\ x_h = None /\ x_d = 0 /\ x_beta = RZero
    /\ x_in = None /\ x_mid = None /\ x_fin = None

IterIdle ==
    i_pc = "off" /\ i_args = None /\ i_res = 0 /\ i_iter = 0 /\ i_out = None

FrameIdle == f_xi = 0 /\ f_calls = 0 /\ f_dirty = {} /\ f_last = None

DecompIdle == d_args = None /\ d_out = None
InterpIdle == p_args = None /\ p_out = None

GridInit ==
    g_lamb \in GridLambs /\ g_out = None /\ BuildIdle /\ XferIdle /\ IterIdle /\ FrameIdle /\ DecompIdle /\ InterpIdle

Discretize ==
    /\ g_out = None
    /\ g_out' = Some(kernel_discretization(g_lamb))
    /\ UNCHANGED <<g_lamb, buildvars, xfervars, itervars, framevars, decompvars, interpvars>>

GridNext == Discretize

SpecGrid == GridInit /\ [][GridNext]_vars

\* C8: the stored kernel matrix is mirror symmetric, kmat[nt-1-i, no-1-j] =
\* kmat[i, j] for every row i and column j, and it equals the kernel
\* evaluated directly on the full time grid tt whose upper half is the
\* mirrored lower half, tt[nt-1-i] = 1 - t[i], the frequency grid being
\* antisymmetric, om[no-1-j] = -om[j].
FullTimeGrid(o) ==
    [k \in 1..o.nt |-> IF k <= o.nt \div 2 THEN o.t[k]
                       ELSE RSub(ROne, o.t[o.nt + 1 - k])]

C8_MirrorSymmetry ==
    g_out # None =>
        LET o == g_out[1]
        IN  /\ Len(o.kmat) = o.nt
            /\ \A i \in 1..o.nt : Len(o.kmat[i]) = o.no
            /\ \A i \in 1..o.nt : \A j \in 1..o.no :
                    o.kmat[o.nt + 1 - i][o.no + 1 - j] = o.kmat[i][j]
            /\ \A j \in 1..o.no : o.w[o.no + 1 - j] = RNeg(o.w[j])
            /\ o.kmat = kernel(FullTimeGrid(o), o.w)

\* A discretized kernel with several time panels and a matrix that is not
\* constant along its rows or columns.
C8_Witness ==
    /\ g_out # None
    /\ g_out[1].nt >= 4 * Order
    /\ g_out[1].kmat[1][1] # g_out[1].kmat[1][g_out[1].no]
    /\ g_out[1].kmat[1][1] # g_out[1].kmat[g_out[1].nt][1]

(***************************************************************************)
(* Construction of a handle, and calls on it.                              *)
(***************************************************************************)
BuildLambs == {RInt(-1), RZero, ROne, RInt(2)}
BuildEps == {RInt(-1), RZero, Rat(1, 1000)}
XiArgs == {-1, 1}
MaxRankArgs == {1, 2}
Betas == {ROne, RInt(2)}

BuildInit == BuildIdle /\ GridIdle /\ XferIdle /\ IterIdle /\ FrameIdle /\ DecompIdle /\ InterpIdle

\* d = dlr(lamb, eps, xi, max_rank): the whole constructor.
Construct ==
    /\ b_args = None
    /\ \E lamb \in BuildLambs, eps \in BuildEps, xi \in XiArgs, max_rank \in MaxRankArgs :
        /\ b_args' = Some([lamb |-> lamb, eps |-> eps, xi |-> xi, max_rank |-> max_rank])
        /\ \E k \in KidOutcomes(lamb, eps, max_rank) :
             LET d == dlr_init(lamb, eps, xi, k.kid)
             IN  b_err' = d.err /\ b_handle' = d.handle /\ b_est' = k.est
    /\ b_ret' = None
    /\ UNCHANGED <<gridvars, xfervars, itervars, framevars, decompvars, interpvars>>

\* d.get_tau(beta)
GetTau ==
    /\ b_handle # None
    /\ \E beta \in Betas :
         b_ret' = Some([op |-> "get_tau", beta |-> beta, err |-> "",
                        val |-> Some(get_tau(b_handle[1], beta))])
    /\ UNCHANGED <<b_args, b_err, b_handle, b_est, gridvars, xfervars, itervars, framevars, decompvars, interpvars>>

\* d.eval_dlr_tau(G, tau, beta), G the all-ones coefficients.
EvalDlrTau ==
    /\ b_handle # None
    /\ \E beta \in Betas : \E tau \in {<<RZero>>, <<RMul(beta, RHalf)>>} :
         LET h == b_handle[1]
             r == eval_dlr_tau(h, [x \in 1..h.rank |-> ROne], tau, beta)
         IN  b_ret' = Some([op |-> "eval_dlr_tau", beta |-> beta,
                            err |-> r.err, val |-> r.val])
    /\ UNCHANGED <<b_args, b_err, b_handle, b_est, gridvars, xfervars, itervars, framevars, decompvars, interpvars>>

BuildNext == Construct \/ GetTau \/ EvalDlrTau

SpecBuild == BuildInit /\ [][BuildNext]_vars

(***************************************************************************)
(* The basis selection on its own: dlr_decomp called on a kernel matrix of *)
(* the shape kernel_discretization gives it, without and with the caller's *)
(* own eps_rank.                                                           *)
(***************************************************************************)
DecompLambs == {ROne, RInt(3)}

DecompInit ==
    DecompIdle /\ GridIdle /\ BuildIdle /\ XferIdle /\ IterIdle /\ FrameIdle /\ InterpIdle

DecompCall(lamb, eps_rank) ==
    \E gp \in {gridparams(lamb, Order)} :
      \E est \in {r \in RankEstimates(gp.nt, gp.no) : r <= MaxSelect} :
        \E dec \in dlr_decomp(gp.nt, gp.no, est, eps_rank) :
          /\ d_args' = Some([lamb |-> lamb, nt |-> gp.nt, no |-> gp.no,
                            est |-> est, eps_rank |-> eps_rank])
          /\ d_out' = Some(dec)
          /\ UNCHANGED <<gridvars, buildvars, xfervars, itervars, framevars, interpvars>>

\* dlr_decomp(kmat, eps, lamb)
DlrDecomp ==
    /\ d_args = None
    /\ \E lamb \in DecompLambs : DecompCall(lamb, None)

\* dlr_decomp(kmat, eps, lamb, eps_rank)
DlrDecompWithRank ==
    /\ d_args = None
    /\ \E lamb \in DecompLambs : \E r \in 0..MaxSelect : DecompCall(lamb, Some(r))

DecompNext == DlrDecomp \/ DlrDecompWithRank

SpecDecomp == DecompInit /\ [][DecompNext]_vars

(***************************************************************************)
(* The interpolation primitive on its own: barycentric_interpolation on    *)
(* the collocation points and their weights, called on query points of the *)
(* caller's choice, and as the error estimate of kernel_discretization     *)
(* calls it, on the collocation points of twice the order.                 *)
(***************************************************************************)
\* Points that are no node of any of the node sets.
OffNodes == {Rat(1, 7), Rat(-5, 7)}

Queries(x_i) ==
    LET pts == {x_i[k] : k \in 1..Len(x_i)} \cup OffNodes
    IN  UNION {[1..M -> pts] : M \in 1..MaxQuery}

\* Function values at the nodes: all different, and with zeros among them.
NodeValues(N) == {[k \in 1..N |-> RInt(k)], [k \in 1..N |-> RInt((k + 1) % 2)]}

InterpInit ==
    InterpIdle /\ GridIdle /\ BuildIdle /\ XferIdle /\ IterIdle /\ FrameIdle /\ DecompIdle

InterpCall(x, N, f_i) ==
    \E x_i \in {chebyschev_collocation_points_1st_kind(N)} :
      \E w_i \in {chebyschev_barycentric_weights_1st_kind(N)} :
        \E out \in barycentric_interpolation(x, x_i, f_i, w_i) :
          /\ p_args' = Some([x |-> x, x_i |-> x_i, f_i |-> f_i, w_i |-> w_i])
          /\ p_out' = Some(out)
          /\ UNCHANGED <<gridvars, buildvars, xfervars, itervars, framevars, decompvars>>

\* barycentric_interpolation(x, x_i, f_i, w_i)
BarycentricInterpolation ==
    /\ p_args = None
    /\ \E N \in 2..MaxNodes : \E f_i \in NodeValues(N) :
         \E x \in Queries(chebyschev_collocation_points_1st_kind(N)) :
            InterpCall(x, N, f_i)

\* K_interp = barycentric_interpolation(x2_i, x_i, kmat[...], w_i), x2_i the
\* collocation points of order 2N.
ErrorEstimateInterpolation ==
    /\ p_args = None
    /\ \E N \in 2..MaxNodes : \E f_i \in NodeValues(N) :
         InterpCall(chebyschev_collocation_points_1st_kind(2 * N), N, f_i)

InterpNext == BarycentricInterpolation \/ ErrorEstimateInterpolation

SpecInterp == InterpInit /\ [][InterpNext]_vars

(***************************************************************************)
(* A caller of the transforms: it holds a handle, starts from an array and *)
(* makes a first and then a second call, the second on the first's result. *)
(***************************************************************************)
\* 1/(i nu_q + w_x)
Cauchy(nu, w) ==
    Mat([q \in 1..Len(nu) |-> [x \in 1..Len(w) |-> CDiv(COne, Cx(w[x], RInt(nu[q])))]])

IntMat(M) == Mat([i \in 1..Len(M) |-> [j \in 1..Len(M[i]) |-> CInt(M[i][j])]])

\* Three decompositions: invertible fit matrices of rank 2 and 3 that are
\* not symmetric, with and
\* without row interchanges in their factorization; frequency nodes with
\* w_i - w_j # -1; odd Matsubara indices; K1 in (0, 1).
XDecomps ==
    { [T_lx |-> IntMat(<<<<1, 1>>, <<2, 3>>>>),
       T_qx |-> Cauchy(<<1, -1>>, <<RInt(-1), RInt(1)>>),
       dlrit |-> <<Rat(1, 4), Rat(3, 4)>>, dlrrf |-> <<RInt(-1), RInt(1)>>,
       K1 |-> <<Rat(3, 4), Rat(1, 4)>>],
      [T_lx |-> IntMat(<<<<3, 1>>, <<2, 1>>>>),
       T_qx |-> Cauchy(<<3, 1>>, <<RInt(2), RInt(0)>>),
       dlrit |-> <<Rat(1, 4), Rat(1, 2)>>, dlrrf |-> <<RInt(2), RInt(0)>>,
       K1 |-> <<Rat(1, 4), Rat(1, 2)>>],
      [T_lx |-> IntMat(<<<<0, 1, 1>>, <<1, 1, 0>>, <<1, 1, 1>>>>),
       T_qx |-> Cauchy(<<1, -1, 3>>, <<RInt(-2), RInt(0), RInt(2)>>),
       dlrit |-> <<Rat(1, 4), Rat(1, 2), Rat(3, 4)>>,
       dlrrf |-> <<RInt(-2), RInt(0), RInt(2)>>,
       K1 |-> <<Rat(3, 4), Rat(1, 2), Rat(1, 4)>>] }

XHandles == {dlr_init_numeric(NumericMembers(k)) : k \in XDecomps}
XBetas == {RInt(2), Rat(1, 2)}

ZeroArray(n, d) == Mat([x \in 1..n |-> VZero(d * d)])
UnitArray(n, d, p, q, v) ==
    Mat([x \in 1..n |-> [k \in 1..(d * d) |-> IF x = p /\ k = q THEN v ELSE CZero]])
RampArray(n, d) ==
    Mat([x \in 1..n |-> [k \in 1..(d * d) |->
        Cx(RInt(x + 2 * k), RInt(((x * k) % 3) - 1))]])

\* The caller's arrays of shape (n, d, d): zero, a single entry (1 or i, in
\* every place), and one with all entries different and no block symmetric.
XInputs(n, d) ==
    {ZeroArray(n, d), RampArray(n, d)}
    \cup {UnitArray(n, d, p, q, IF (p + q) % 2 = 0 THEN COne ELSE CImag) :
              p \in 1..n, q \in 1..(d * d)}

XferInit ==
    /\ x_h \in XHandles
    /\ x_d \in 1..MaxDim
    /\ x_beta \in XBetas
    /\ x_in \in XInputs(x_h.rank, x_d)
    /\ x_mid = None /\ x_fin = None
    /\ GridIdle /\ BuildIdle /\ IterIdle /\ FrameIdle /\ DecompIdle /\ InterpIdle

\* The array the next call is made on.
XCur == IF x_mid = None THEN x_in ELSE x_mid[1].val[1]

XTransforms ==
    {"tau_from_dlr", "dlr_from_tau", "matsubara_from_dlr", "dlr_from_matsubara"}

\* The next call is the caller's first, or its second, made on the array a
\* transform returned.
XCanCall == x_fin = None /\ (x_mid # None => x_mid[1].op \in XTransforms)

XCall(rec) ==
    /\ IF x_mid = None THEN x_mid' = Some(rec) /\ x_fin' = x_fin
       ELSE x_fin' = Some(rec) /\ x_mid' = x_mid
    /\ UNCHANGED <<x_h, x_d, x_beta, x_in, gridvars, buildvars, itervars, framevars, decompvars, interpvars>>

XOk(op, arg, val) == [op |-> op, arg |-> arg, err |-> "", val |-> Some(val)]

TauFromDlr ==
    /\ XCanCall
    /\ XCall(XOk("tau_from_dlr", None, tau_from_dlr(x_h, XCur)))

DlrFromTau ==
    /\ XCanCall
    /\ XCall(XOk("dlr_from_tau", None, dlr_from_tau(x_h, XCur)))

MatsubaraFromDlr ==
    /\ XCanCall
    /\ XCall(XOk("matsubara_from_dlr", None,
                 matsubara_from_dlr(x_h, x_d, XCur, x_beta)))

DlrFromMatsubara ==
    /\ XCanCall
    /\ XCall(XOk("dlr_from_matsubara", None, dlr_from_matsubara(x_h, XCur, x_beta)))

\* convolution(A, B, beta), A the caller's array, B the ramp or A itself.
Convolution ==
    /\ x_mid = None
    /\ \E B \in {x_in, RampArray(x_h.rank, x_d)} :
         XCall(XOk("convolution", Some(B), convolution(x_h, x_d, x_in, B, x_beta)))

ConvolutionDense ==
    /\ x_mid = None
    /\ \E B \in {x_in, RampArray(x_h.rank, x_d)} :
         XCall(XOk("convolution_dense", Some(B),
                   convolution_dense(x_h, x_d, x_in, B, x_beta)))

\* dyson_dlr(H, Sigma, beta), direct, with Sigma = 0: the caller's array is
\* the free propagator of H on the time grid.
DysonDlr ==
    /\ x_mid = None
    /\ LET Sigma == ZeroArray(x_h.rank, x_d)
           r == dyson_dlr(x_h, x_d, x_in, Sigma, x_beta)
       IN  XCall([op |-> "dyson_dlr", arg |-> Some(Sigma),
                  err |-> r.err, val |-> r.val])

XferNext ==
    \/ TauFromDlr \/ DlrFromTau \/ MatsubaraFromDlr \/ DlrFromMatsubara
    \/ Convolution \/ ConvolutionDense \/ DysonDlr

SpecXfer == XferInit /\ [][XferNext]_vars


(***************************************************************************)
(* dyson_dlr(H, Sigma, beta, iterative=True): the call, the iterations of  *)
(* scipy's gmres under solver_wrapper, and the return.  The iterate is     *)
(* known by its residual; the solver's contract is (x, info), info = 0 on  *)
(* convergence and the number of iterations made when the budget ran out.  *)
(***************************************************************************)
Tols == 1..2

IterInit ==
    /\ i_pc = "idle" /\ i_args = None /\ i_res = 0 /\ i_iter = 0 /\ i_out = None
    /\ GridIdle /\ BuildIdle /\ XferIdle /\ FrameIdle /\ DecompIdle /\ InterpIdle

Converged == i_res <= i_args[1].tol

\* The iterations gmres has made: the callback has run once for each.
Iterations == i_iter - 1

\* dyson_dlr up to the solver call: g0, g0Sigma, the operators D_AA and
\* M_AA, x0_Aa = M_AA.matvec(b_Aa) with whatever residual it has, and
\* solver_wrapper.__call__ setting iter = 1.
DysonIterativeCall ==
    /\ i_pc = "idle"
    /\ \E tol \in Tols, verbose \in BOOLEAN, lomem \in BOOLEAN, r0 \in 0..MaxRes :
        /\ i_args' = Some([tol |-> tol, verbose |-> verbose, lomem |-> lomem])
        /\ i_res' = r0
    /\ i_iter' = 1
    /\ i_pc' = "gmres"
    /\ UNCHANGED <<i_out, gridvars, buildvars, xfervars, framevars, decompvars, interpvars>>

\* One iteration of gmres: a new iterate whose residual is no larger, and
\* solver_wrapper.callback: self.iter += 1.
GmresIterate ==
    /\ i_pc = "gmres"
    /\ ~Converged
    /\ Iterations < MaxIter
    /\ \E r \in 0..i_res : i_res' = r
    /\ i_iter' = i_iter + 1
    /\ UNCHANGED <<i_pc, i_args, i_out, gridvars, buildvars, xfervars, framevars, decompvars, interpvars>>

\* What dyson_dlr does with the solver's (g_Aa, info): the code reshapes
\* g_Aa and returns it, info is bound and not read.
dyson_dlr_after_solver(g_Aa, info) ==
    [err |-> "", val |-> Some(g_Aa), info |-> info, report |-> None]

\* gmres stops, converged or out of budget, and dyson_dlr runs to its end.
DysonIterativeReturn ==
    /\ i_pc = "gmres"
    /\ Converged \/ Iterations = MaxIter
    /\ LET info == IF Converged THEN 0 ELSE Iterations
       IN  i_out' = Some(dyson_dlr_after_solver([res |-> i_res], info))
    /\ i_pc' = "done"
    /\ UNCHANGED <<i_args, i_res, i_iter, gridvars, buildvars, xfervars, framevars, decompvars, interpvars>>

IterNext == DysonIterativeCall \/ GmresIterate \/ DysonIterativeReturn

SpecDyson == IterInit /\ [][IterNext]_vars


(***************************************************************************)
(* The buffers the operations touch.  Every array is a buffer; a statement *)
(* of an operation allocates a buffer (New: tensordot, matmul, einsum of   *)
(* two operands, arithmetic, conj, copy, lu_solve and np.linalg.solve,     *)
(* fancy indexing), names a buffer a second time (View: reshape,           *)
(* transpose, moveaxis, .T, [:, None], a plain name), writes a buffer in   *)
(* place (Write: +=, -=, *=, slice assignment), calls a method of the      *)
(* handle (Call) or a local function that sees the enclosing names         *)
(* (Closure), or returns (Ret).                                            *)
(***************************************************************************)
Members ==
    <<"self.rank", "self.t", "self.om", "self.kmat", "self.dlrit", "self.dlrrf",
      "self.dlrmf", "self.dlrit2cf", "self.it2cfpiv", "self.dlrmf2cf",
      "self.mf2cfpiv", "self.T_lx", "self.T_qx", "self.W_xx", "self.k1_x",
      "self.TtT_xx">>

MemberBuf(name) == CHOOSE k \in 1..Len(Members) : Members[k] = name
MemberBufs == 1..Len(Members)
\* Two arrays the caller made itself, and the result of the caller's c-th call.
CallerBufs == {Len(Members) + 1, Len(Members) + 2}
ResultBuf(c) == Len(Members) + 2 + c
\* Buffers allocated while a call runs.
LocalBase == Len(Members) + 3 + MaxCalls

New(d) == [k |-> "new", d |-> d, s |-> "", a |-> <<>>]
View(d, src) == [k |-> "view", d |-> d, s |-> src, a |-> <<>>]
Write(d) == [k |-> "write", d |-> d, s |-> "", a |-> <<>>]
Call(d, f, a) == [k |-> "call", d |-> d, s |-> f, a |-> a]
Closure(d, f, a) == [k |-> "closure", d |-> d, s |-> f, a |-> a]
Ret(src) == [k |-> "ret", d |-> "", s |-> src, a |-> <<>>]
AssertFermion == [k |-> "assert", d |-> "", s |-> "", a |-> <<>>]

Fx(params, body) == [params |-> params, body |-> body]

fx_get_tau_over_beta == Fx(<<>>, <<
    Ret("self.dlrit") >>)                         \* return self.dlrit

fx_get_tau == Fx(<<>>, <<
    Call("t_l", "get_tau_over_beta", <<>>),
    New("tau_l"),                                 \* self.get_tau_over_beta() * beta
    Ret("tau_l") >>)

fx_get_matsubara_frequencies == Fx(<<>>, <<
    New("w_q"),                                   \* 1.j * np.pi/beta * (2*self.dlrmf + zeta)
    Ret("w_q") >>)

fx_dlr_from_tau == Fx(<<"G_laa">>, <<
    New("G_xaa"),                                 \* lu_solve((dlrit2cf, it2cfpiv), G_laa)
    Ret("G_xaa") >>)

fx_tau_from_dlr == Fx(<<"G_xaa">>, <<
    New("G_laa"),                                 \* np.tensordot(self.T_lx, G_xaa, axes=(1, 0))
    Ret("G_laa") >>)

fx_dlr_from_matsubara == Fx(<<"G_qaa">>, <<
    New("conj"),                                  \* G_qaa.conj()
    New("scaled"),                                \* ... / beta
    New("G_xaa"),                                 \* lu_solve((dlrmf2cf, mf2cfpiv), ...)
    Ret("G_xaa") >>)

fx_matsubara_from_dlr == Fx(<<"G_xaa">>, <<
    New("G_qaa"),                                 \* beta * np.tensordot(self.T_qx, G_xaa, ...)
    View("G_qaa", "G_qaa"),                       \* np.transpose(G_qaa, axes=(0, 2, 1))
    New("G_qaa"),                                 \* G_qaa.conj()
    Ret("G_qaa") >>)

fx_eval_dlr_tau == Fx(<<"G_xaa", "tau">>, <<
    AssertFermion,                                \* assert( self.xi == -1. )
    New("w_x"),                                   \* self.dlrrf / beta
    New("p"), New("m"),                           \* np.argwhere(...)
    New("w_p"), New("G_paa"),                     \* w_x[p].T, G_xaa[p][:, 0]
    New("w_m"), New("G_maa"),                     \* w_x[m].T, G_xaa[m][:, 0]
    View("tau", "tau"),                           \* tau = tau[:, None]
    New("G_taa"),                                 \* np.einsum(...) + np.einsum(...)
    Ret("G_taa") >>)

fx_eval_dlr_freq == Fx(<<"G_xaa", "iwn">>, <<
    New("w_x"),                                   \* self.dlrrf / beta
    New("G_qaa"),                                 \* np.einsum('x...,qx->q...', G_xaa, 1./(...))
    View("G_qaa", "G_qaa"),                       \* np.transpose(G_qaa, axes=(0, 2, 1))
    New("G_qaa"),                                 \* G_qaa.conj()
    Ret("G_qaa") >>)

fx_convolution_matrix == Fx(<<"A_xaa">>, <<
    New("Q_xaa"),                                 \* np.einsum('yx,yab->xab', self.W_xx, A_xaa)
    New("tmp"), Write("Q_xaa"),                   \* Q_xaa += self.k1_x[:,None,None] * A_xaa
    New("C_xxaa"),                                \* np.einsum('xy,yab->yxab', self.W_xx, A_xaa)
    New("tmp"), Write("C_xxaa"),                  \* C_xxaa += np.einsum(.., self.TtT_xx, A_xaa)
    New("tmp"), Write("C_xxaa"),                  \* C_xxaa += np.einsum(.., np.eye(n), Q_xaa)
    Write("C_xxaa"),                              \* C_xxaa *= beta
    View("C_xaxa", "C_xxaa"),                     \* np.moveaxis(C_xxaa, 2, 1)
    Ret("C_xaxa") >>)

\* A convolution that accumulates into its first argument.
fx_convolution_into_A == Fx(<<"A_xaa", "B_xaa">>, <<
    View("C_xaa", "A_xaa"),
    New("tmp"), Write("C_xaa"),
    Write("C_xaa"),
    Ret("C_xaa") >>)

fx_convolution == Fx(<<"A_xaa", "B_xaa">>, <<
    View("WT", "self.W_xx"),                      \* self.W_xx.T
    View("A_", "A_xaa"),                          \* A_xaa.reshape((n, na*na))
    New("WA_"),                                   \* np.matmul(self.W_xx.T, ...)
    View("WA_xaa", "WA_"),                        \* .reshape((n, na, na))
    New("C_xaa"),                                 \* np.matmul(WA_xaa, B_xaa)
    View("B_", "B_xaa"),                          \* B_xaa.reshape((n, na*na))
    New("WB_"),                                   \* np.matmul(self.W_xx.T, ...)
    View("WB_xaa", "WB_"),                        \* .reshape((n, na, na))
    New("tmp"), Write("C_xaa"),                   \* C_xaa += np.matmul(A_xaa, WB_xaa)
    New("AB_xaa"),                                \* np.matmul(A_xaa, B_xaa)
    New("tmp"), Write("C_xaa"),                   \* C_xaa += self.k1_x[:, None, None] * AB_xaa
    View("AB_", "AB_xaa"),                        \* AB_xaa.reshape((n, na*na))
    New("tmp"), View("tmp", "tmp"),               \* np.matmul(self.TtT_xx, ...).reshape(...)
    Write("C_xaa"),                               \* C_xaa += ...
    Write("C_xaa"),                               \* C_xaa *= beta
    Ret("C_xaa") >>)

fx_convolution_dense == Fx(<<"A_xaa", "B_xaa">>, <<
    Call("C_xaxa", "convolution_matrix", <<"A_xaa">>),
    View("A_AA", "C_xaxa"),                       \* .reshape((n*na, n*na))
    View("B_Aa", "B_xaa"),                        \* B_xaa.reshape((n*na, na))
    New("C_Aa"),                                  \* A_AA @ B_Aa
    View("C_xaa", "C_Aa"),                        \* C_Aa.reshape((n, na, na))
    Ret("C_xaa") >>)

fx_free_greens_function_dlr == Fx(<<"H_aa">>, <<
    New("I_aa"),                                  \* np.eye(na)
    View("S_aa", "I_aa"),                         \* if S_aa is None: S_aa = I_aa
    View("w_x", "self.dlrrf"),                    \* w_x = self.dlrrf
    New("D_lx"),                                  \* self.T_lx * w_x[None, :] / beta
    New("D_AA"),                                  \* np.kron(D_lx, S_aa) - np.kron(self.T_lx, H_aa)
    New("bc_x"),                                  \* kernel(0, w_x) + kernel(1, w_x)
    New("tmp"), Write("D_AA"),                    \* D_AA[(n-1)*na:, :] = np.kron(bc_x, S_aa)
    New("b_Aa"),                                  \* np.zeros((n*na, na))
    New("tmp"), Write("b_Aa"),                    \* b_Aa[(n-1)*na:, :] = -I_aa
    New("g_Aa"),                                  \* np.linalg.solve(D_AA, b_Aa)
    View("g_xaa", "g_Aa"),                        \* .reshape((n, na, na))
    Ret("g_xaa") >>)

fx_free_greens_function_tau == Fx(<<"H_aa">>, <<
    View("w_x", "self.dlrrf"),                    \* w_x = self.dlrrf
    New("E"), New("U"),                           \* np.linalg.eigh(H_aa)
    Call("tau_l", "get_tau", <<>>),               \* self.get_tau(1.)
    New("g_lE"),                                  \* -kernel(tau_l, E*beta)
    New("g_laa"),                                 \* np.einsum('lE,aE,Eb->lab', ...)
    Ret("g_laa") >>)

fx_free_greens_function_matsubara == Fx(<<"H_aa">>, <<
    New("S_aa"),                                  \* np.eye(H_aa.shape[0])
    Call("w_q", "get_matsubara_frequencies", <<>>),
    New("tmp"),                                   \* w_q[:, None, None] * S_aa[None, ...] - H_aa[None, ...]
    New("g_qaa"),                                 \* np.linalg.inv(...)
    Ret("g_qaa") >>)

fx_dyson_matsubara == Fx(<<"H_aa", "Sigma_qaa">>, <<
    New("S_aa"),                                  \* np.eye(H_aa.shape[0])
    Call("w_q", "get_matsubara_frequencies", <<>>),
    New("tmp"),                                   \* w_q * S_aa - H_aa - Sigma_qaa
    New("G_qaa"),                                 \* np.linalg.inv(...)
    Ret("G_qaa") >>)

fx_dyson_dlr_integrodiff == Fx(<<"H_aa", "Sigma_xaa">>, <<
    New("I_aa"),                                  \* np.eye(na)
    View("S_aa", "I_aa"),                         \* if S_aa is None: S_aa = I_aa
    View("w_x", "self.dlrrf"),                    \* w_x = self.dlrrf
    New("D_lx"),                                  \* self.T_lx * w_x[None, :] / beta
    Call("C_xaxa", "convolution_matrix", <<"Sigma_xaa">>),
    Call("C_laxa", "tau_from_dlr", <<"C_xaxa">>),
    New("D_AA"),                                  \* -self.tau_from_dlr(...)
    View("D_AA", "D_AA"),                         \* .reshape((n*na, n*na))
    New("tmp"), Write("D_AA"),                    \* D_AA += np.kron(D_lx, S_aa) - np.kron(T_lx, H_aa)
    New("bc_x"),                                  \* kernel(0, w_x) + kernel(1, w_x)
    New("tmp"), Write("D_AA"),                    \* D_AA[(n-1)*na:, :] = np.kron(bc_x, S_aa)
    New("b_Aa"),                                  \* np.zeros((n*na, na))
    New("tmp"), Write("b_Aa"),                    \* b_Aa[(n-1)*na:, :] = -I_aa
    New("g_Aa"),                                  \* np.linalg.solve(D_AA, b_Aa)
    View("g_xaa", "g_Aa"),                        \* .reshape((n, na, na))
    Ret("g_xaa") >>)

\* dyson_dlr down to the branch on iterative.
dyson_dlr_head == <<
    New("I_aa"),                                  \* np.eye(na)
    Call("g0_iaa", "free_greens_function_tau", <<"H_aa">>),
    Call("g0_xaa", "dlr_from_tau", <<"g0_iaa">>),
    Call("g0Sigma_xaa", "convolution", <<"g0_xaa", "Sigma_xaa">>) >>

fx_dyson_dlr == Fx(<<"H_aa", "Sigma_xaa">>, dyson_dlr_head \o <<
    Call("C_xaxa", "convolution_matrix", <<"g0Sigma_xaa">>),
    View("C_AA", "C_xaxa"),                       \* .reshape((n*na, n*na))
    New("D_AA"),                                  \* np.kron(np.eye(n), I_aa) - ...
    View("b_Aa", "g0_xaa"),                       \* g0_xaa.reshape((n*na, na))
    New("g_Aa"),                                  \* np.linalg.solve(D_AA, b_Aa)
    View("g_xaa", "g_Aa"),                        \* .reshape((n, na, na))
    Ret("g_xaa") >>)

\* Amatvec of the lomem branch
fx_Amatvec_lomem == Fx(<<"x_Aa">>, <<
    View("x_xaa", "x_Aa"),                        \* x_Aa.reshape((n, na, na))
    New("y_xaa"),                                 \* x_xaa.copy()
    Call("c_xaa", "convolution", <<"g0Sigma_xaa", "x_xaa">>),
    Write("y_xaa"),                               \* y_xaa -= ...
    Call("y_laa", "tau_from_dlr", <<"y_xaa">>),
    View("y_Aa", "y_laa"),                        \* .reshape((n*na, na))
    Ret("y_Aa") >>)

fx_Amatvec == Fx(<<"x_Aa">>, <<
    New("tmp"),                                   \* C_AA @ x_Aa
    New("y_Aa"),                                  \* x_Aa - C_AA @ x_Aa
    View("y_xaa", "y_Aa"),                        \* y_Aa.reshape((n, na, na))
    Call("y_laa", "tau_from_dlr", <<"y_xaa">>),
    View("r_Aa", "y_laa"),                        \* .reshape((n*na, na))
    Ret("r_Aa") >>)

fx_Mmatvec == Fx(<<"x_Aa">>, <<
    View("x_iaa", "x_Aa"),                        \* x_Aa.reshape((n, na, na))
    Call("x_xaa", "dlr_from_tau", <<"x_iaa">>),
    Call("x_qaa", "matsubara_from_dlr", <<"x_xaa">>),
    New("y_qaa"),                                 \* M_qaa @ x_qaa
    Call("y_xaa", "dlr_from_matsubara", <<"y_qaa">>),
    View("y_Aa", "y_xaa"),                        \* y_xaa.reshape((n*na, na))
    Ret("y_Aa") >>)

\* The iterative branch from the preconditioner on; gmres copies x0, applies
\* the two operators and returns a new array.
dyson_dlr_krylov(Amv) == <<
    New("I_aa"),                                  \* np.eye(na)
    Call("g0Sigma_qaa", "matsubara_from_dlr", <<"g0Sigma_xaa">>),
    New("M_qaa"),                                 \* np.linalg.inv(I_aa[None, ...] - g0Sigma_qaa)
    View("b_Aa", "g0_iaa"),                       \* g0_iaa.reshape((n*na, na))
    Closure("x0_Aa", "Mmatvec", <<"b_Aa">>),      \* M_AA.matvec(b_Aa)
    New("x"),                                     \* gmres: its iterate, from x0
    Closure("Ax", Amv, <<"x">>),                  \* gmres: D_AA.matvec
    Closure("MAx", "Mmatvec", <<"Ax">>),          \* gmres: M_AA.matvec
    New("g_Aa"),                                  \* gmres returns (g_Aa, info)
    View("g_xaa", "g_Aa"),                        \* g_Aa.reshape((n, na, na))
    Ret("g_xaa") >>

fx_dyson_dlr_iterative == Fx(<<"H_aa", "Sigma_xaa">>, dyson_dlr_head \o <<
    Call("C_xaxa", "convolution_matrix", <<"g0Sigma_xaa">>),
    View("C_AA", "C_xaxa") >>                     \* .reshape((n*na, n*na))
    \o dyson_dlr_krylov("Amatvec"))

fx_dyson_dlr_iterative_lomem == Fx(<<"H_aa", "Sigma_xaa">>,
    dyson_dlr_head \o dyson_dlr_krylov("Amatvec_lomem"))

fx_volterra_matsubara == Fx(<<"g_qaa", "Sigma_qaa">>, <<
    New("tmp"),                                   \* np.matmul(g_qaa, Sigma_qaa)
    New("A_qaa"),                                 \* np.eye(N) - ...
    New("G_qaa"),                                 \* np.linalg.solve(A_qaa, g_qaa)
    Ret("G_qaa") >>)

Effects ==
    [get_tau_over_beta |-> fx_get_tau_over_beta,
     get_tau |-> fx_get_tau,
     get_matsubara_frequencies |-> fx_get_matsubara_frequencies,
     dlr_from_tau |-> fx_dlr_from_tau,
     tau_from_dlr |-> fx_tau_from_dlr,
     dlr_from_matsubara |-> fx_dlr_from_matsubara,
     matsubara_from_dlr |-> fx_matsubara_from_dlr,
     eval_dlr_tau |-> fx_eval_dlr_tau,
     eval_dlr_freq |-> fx_eval_dlr_freq,
     convolution |-> fx_convolution,
     convolution_matrix |-> fx_convolution_matrix,
     convolution_dense |-> fx_convolution_dense,
     free_greens_function_dlr |-> fx_free_greens_function_dlr,
     free_greens_function_tau |-> fx_free_greens_function_tau,
     free_greens_function_matsubara |-> fx_free_greens_function_matsubara,
     dyson_matsubara |-> fx_dyson_matsubara,
     dyson_dlr_integrodiff |-> fx_dyson_dlr_integrodiff,
     dyson_dlr |-> fx_dyson_dlr,
     dyson_dlr_iterative |-> fx_dyson_dlr_iterative,
     dyson_dlr_iterative_lomem |-> fx_dyson_dlr_iterative_lomem,
     Amatvec |-> fx_Amatvec,
     Amatvec_lomem |-> fx_Amatvec_lomem,
     Mmatvec |-> fx_Mmatvec,
     volterra_matsubara |-> fx_volterra_matsubara]

SelfEnv == [n \in {Members[k] : k \in 1..Len(Members)} |-> MemberBuf(n)]

\* The parameters bound to the buffers passed for them.
ParamEnv(params, bufs) ==
    [n \in {params[j] : j \in 1..Len(params)} |->
        bufs[CHOOSE j \in 1..Len(params) : params[j] = n]]

\* The statements of body from the k-th on, run in the frame st: the names
\* in scope, the next buffer to allocate, the buffers written that existed
\* before the caller's call, the buffer returned and the error raised.
RECURSIVE Exec(_, _, _, _)

\* The callee fx of statement c, run in its own frame.
Callee(fx, c, st, xi) ==
    Exec(fx.body, 1,
         [st EXCEPT !.env = ParamEnv(fx.params, [j \in 1..Len(c.a) |-> st.env[c.a[j]]])
                            @@ (IF c.k = "closure" THEN st.env ELSE SelfEnv)],
         xi)

\* The caller's frame once the callee has come back with r.
Returned(c, st, r) ==
    [st EXCEPT !.env = (c.d :> r.ret) @@ st.env, !.next = r.next,
               !.dirty = r.dirty, !.err = r.err, !.done = FALSE]

Step(c, st, xi) ==
    CASE c.k = "new" ->
            [st EXCEPT !.env = (c.d :> st.next) @@ st.env, !.next = st.next + 1]
      [] c.k = "view" ->
            [st EXCEPT !.env = (c.d :> st.env[c.s]) @@ st.env]
      [] c.k = "write" ->
            [st EXCEPT !.dirty = IF st.env[c.d] < LocalBase
                                 THEN st.dirty \cup {st.env[c.d]} ELSE st.dirty]
      [] c.k = "assert" ->
            IF xi = -1 THEN st ELSE [st EXCEPT !.err = "AssertionError"]
      [] c.k \in {"call", "closure"} ->
            Returned(c, st, Callee(Effects[c.s], c, st, xi))
      [] c.k = "ret" ->
            [st EXCEPT !.ret = st.env[c.s], !.done = TRUE]

Continue(body, k, st, xi) ==
    IF st.err # "" \/ st.done THEN st ELSE Exec(body, k + 1, st, xi)

Exec(body, k, st, xi) ==
    IF k > Len(body) THEN st ELSE Continue(body, k, Step(body[k], st, xi), xi)

\* A public operation fx called with the buffers bufs for its array
\* parameters, on a handle of statistics xi.
Run(fx, bufs, xi) ==
    Exec(fx.body, 1,
         [env |-> ParamEnv(fx.params, bufs) @@ SelfEnv,
          next |-> LocalBase, dirty |-> {}, ret |-> 0, err |-> "", done |-> FALSE],
         xi)

(***************************************************************************)
(* A caller of one handle: up to MaxCalls public operations in a row, each *)
(* on arrays of the caller's, on cached members read off the handle, or on *)
(* results of its earlier calls, the same array for two parameters         *)
(* included.                                                               *)
(***************************************************************************)
FrameInit ==
    /\ f_xi \in XiArgs
    /\ f_calls = 0 /\ f_dirty = {} /\ f_last = None
    /\ GridIdle /\ BuildIdle /\ XferIdle /\ IterIdle /\ DecompIdle /\ InterpIdle

\* The cached member the caller reads off the handle and passes on.
PassedMembers == {MemberBuf("self.W_xx")}

Passable == CallerBufs \cup PassedMembers \cup {ResultBuf(c) : c \in 1..f_calls}

\* What the caller holds once the call has come back with r.
Outcome(op, bufs, r) ==
    [op |-> op, args |-> bufs, err |-> r.err,
     ret |-> IF r.err # "" THEN 0
             ELSE IF r.ret >= LocalBase THEN ResultBuf(f_calls + 1) ELSE r.ret,
     fresh |-> r.ret >= LocalBase]

FrameCall(op, fx) ==
    /\ \E bufs \in [1..Len(fx.params) -> Passable] :
         \E r \in {Run(fx, bufs, f_xi)} :
             /\ f_dirty' = f_dirty \cup r.dirty
             /\ f_last' = Some(Outcome(op, bufs, r))
    /\ f_calls' = f_calls + 1
    /\ UNCHANGED <<f_xi, gridvars, buildvars, xfervars, itervars, decompvars, interpvars>>

Do_get_tau ==
    f_calls < MaxCalls /\ FrameCall("get_tau", fx_get_tau)
Do_get_matsubara_frequencies ==
    f_calls < MaxCalls /\ FrameCall("get_matsubara_frequencies", fx_get_matsubara_frequencies)
Do_dlr_from_tau ==
    f_calls < MaxCalls /\ FrameCall("dlr_from_tau", fx_dlr_from_tau)
Do_tau_from_dlr ==
    f_calls < MaxCalls /\ FrameCall("tau_from_dlr", fx_tau_from_dlr)
Do_dlr_from_matsubara ==
    f_calls < MaxCalls /\ FrameCall("dlr_from_matsubara", fx_dlr_from_matsubara)
Do_matsubara_from_dlr ==
    f_calls < MaxCalls /\ FrameCall("matsubara_from_dlr", fx_matsubara_from_dlr)
Do_eval_dlr_tau ==
    f_calls < MaxCalls /\ FrameCall("eval_dlr_tau", fx_eval_dlr_tau)
Do_eval_dlr_freq ==
    f_calls < MaxCalls /\ FrameCall("eval_dlr_freq", fx_eval_dlr_freq)
Do_convolution ==
    f_calls < MaxCalls /\ FrameCall("convolution", fx_convolution)
Do_convolution_matrix ==
    f_calls < MaxCalls /\ FrameCall("convolution_matrix", fx_convolution_matrix)
Do_convolution_dense ==
    f_calls < MaxCalls /\ FrameCall("convolution_dense", fx_convolution_dense)
Do_free_greens_function_dlr ==
    f_calls < MaxCalls /\ FrameCall("free_greens_function_dlr", fx_free_greens_function_dlr)
Do_free_greens_function_tau ==
    f_calls < MaxCalls /\ FrameCall("free_greens_function_tau", fx_free_greens_function_tau)
Do_free_greens_function_matsubara ==
    f_calls < MaxCalls /\ FrameCall("free_greens_function_matsubara", fx_free_greens_function_matsubara)
Do_dyson_matsubara ==
    f_calls < MaxCalls /\ FrameCall("dyson_matsubara", fx_dyson_matsubara)
Do_dyson_dlr_integrodiff ==
    f_calls < MaxCalls /\ FrameCall("dyson_dlr_integrodiff", fx_dyson_dlr_integrodiff)
Do_dyson_dlr ==
    f_calls < MaxCalls /\ FrameCall("dyson_dlr", fx_dyson_dlr)
Do_dyson_dlr_iterative ==
    f_calls < MaxCalls /\ FrameCall("dyson_dlr_iterative", fx_dyson_dlr_iterative)
Do_dyson_dlr_iterative_lomem ==
    f_calls < MaxCalls /\ FrameCall("dyson_dlr_iterative_lomem", fx_dyson_dlr_iterative_lomem)
Do_volterra_matsubara ==
    f_calls < MaxCalls /\ FrameCall("volterra_matsubara", fx_volterra_matsubara)

FrameNext ==
    \/ Do_get_tau \/ Do_get_matsubara_frequencies
    \/ Do_dlr_from_tau \/ Do_tau_from_dlr
    \/ Do_dlr_from_matsubara \/ Do_matsubara_from_dlr
    \/ Do_eval_dlr_tau \/ Do_eval_dlr_freq
    \/ Do_convolution \/ Do_convolution_matrix \/ Do_convolution_dense
    \/ Do_free_greens_function_dlr \/ Do_free_greens_function_tau
    \/ Do_free_greens_function_matsubara
    \/ Do_dyson_matsubara \/ Do_dyson_dlr_integrodiff
    \/ Do_dyson_dlr \/ Do_dyson_dlr_iterative \/ Do_dyson_dlr_iterative_lomem
    \/ Do_volterra_matsubara

SpecFrame == FrameInit /\ [][FrameNext]_vars


\* C4: eval_dlr_tau on a handle built with bosonic statistics (xi = +1)
\* fails with an error and returns no value; it returns a value only on a
\* handle built with fermionic statistics (xi = -1).
C4_BosonicEvalFails ==
    (b_ret # None /\ b_ret[1].op = "eval_dlr_tau") =>
        /\ b_args[1].xi = 1 => (b_ret[1].err # "" /\ b_ret[1].val = None)
        /\ b_ret[1].val # None => (b_args[1].xi = -1 /\ b_handle[1].xi = -1)

\* eval_dlr_tau was called on a bosonic handle and raised.
C4_Witness ==
    /\ b_ret # None /\ b_ret[1].op = "eval_dlr_tau"
    /\ b_handle # None /\ b_handle[1].xi = 1
    /\ b_ret[1].err = "AssertionError"

\* C6: every handle construction returns has rank <= max_rank; when the
\* estimated rank of the kernel matrix exceeds max_rank, construction fails
\* with a rank-overflow error and returns no handle.
C6_RankWithinMaxRank ==
    /\ b_handle # None =>
         (b_handle[1].rank <= b_args[1].max_rank /\ b_est = Some(b_handle[1].rank))
    /\ (b_est # None /\ b_est[1] > b_args[1].max_rank) =>
         (b_err = "RankOverflowError" /\ b_handle = None)

\* A construction whose rank estimate exceeded max_rank, and failed.
C6_Witness ==
    /\ b_est # None /\ b_est[1] > b_args[1].max_rank
    /\ b_err = "RankOverflowError" /\ b_handle = None

\* C7: construction with lamb <= 0 or eps <= 0 fails with a configuration
\* error and returns no handle.
C7_NonPositiveConfigFails ==
    (b_args # None /\ (RLe(b_args[1].lamb, RZero) \/ RLe(b_args[1].eps, RZero))) =>
        (b_err = "ConfigurationError" /\ b_handle = None)

\* The constructor was called with lamb = 0 and a positive eps, and failed.
C7_Witness ==
    /\ b_args # None /\ b_args[1].lamb = RZero /\ RLt(RZero, b_args[1].eps)
    /\ b_err = "ConfigurationError" /\ b_handle = None

C2_TimeRoundTrip ==
    (x_fin # None /\ x_mid[1].op = "tau_from_dlr" /\ x_fin[1].op = "dlr_from_tau") =>
        x_fin[1].val = Some(x_in)

\* A time round trip of an array with 2 x 2 blocks that is not zero, on a
\* handle whose factorization interchanged rows.
C2_Witness ==
    /\ x_fin # None /\ x_mid[1].op = "tau_from_dlr" /\ x_fin[1].op = "dlr_from_tau"
    /\ x_d = 2 /\ x_in = RampArray(x_h.rank, x_d)
    /\ \E k \in 1..x_h.rank : x_h.it2cfpiv[k] # k

\* C3: Matsubara round trip: dlr_from_matsubara(matsubara_from_dlr(G, beta),
\* beta) = G for every beta > 0 and every array G of shape (rank, d, d),
\* blocks that are not symmetric included.
C3_MatsubaraRoundTrip ==
    (x_fin # None /\ x_mid[1].op = "matsubara_from_dlr"
                  /\ x_fin[1].op = "dlr_from_matsubara") =>
        x_fin[1].val = Some(x_in)

C5_NonConvergenceFails ==
    (i_pc = "done" /\ i_out[1].info # 0) =>
        /\ i_out[1].err # ""
        /\ i_out[1].val = None
        /\ i_out[1].report = Some([residual |-> i_res, iterations |-> Iterations])

\* C1: after construction, any sequence of public operations leaves every
\* cached member of the handle and every array the caller passed unchanged
\* (no buffer that existed before a call is written by it), and every result
\* is a buffer allocated by the call that returned it.
C1_FrameEffect ==
    /\ f_dirty = {}
    /\ (f_last # None /\ f_last[1].err = "") => f_last[1].fresh

\* A second call, a convolution of a cached member read off the handle
\* with the result of the first call, has returned.
C1_Witness ==
    /\ f_calls = 2 /\ f_last # None
    /\ f_last[1].op = "convolution" /\ f_last[1].err = ""
    /\ f_last[1].args[1] = MemberBuf("self.W_xx")
    /\ f_last[1].args[2] = ResultBuf(1)

\* C11: dlr_decomp returns index sets P_o and P_t of exactly r = eps_rank
\* pairwise distinct indices each, P_o inside the columns [0, no) and P_t
\* inside the rows [0, nt) of the kernel matrix, and the returned rank is the
\* estimated rank of the kernel matrix at tolerance eps*lamb.
IsIndexSet(P, r, n) ==
    /\ Len(P) = r
    /\ \A i \in 1..r : P[i] \in 1..n
    /\ \A i \in 1..r : \A j \in 1..r : i # j => P[i] # P[j]

C11_Selection ==
    d_out # None =>
        /\ IsIndexSet(d_out[1].P_o, d_out[1].rank, d_args[1].no)
        /\ IsIndexSet(d_out[1].P_t, d_out[1].rank, d_args[1].nt)
        /\ d_out[1].rank = d_args[1].est

\* C11 as it holds: the same, of a call that passes no eps_rank.
C11_SelectionByEstimate ==
    (d_out # None /\ d_args[1].eps_rank = None) =>
        /\ IsIndexSet(d_out[1].P_o, d_out[1].rank, d_args[1].no)
        /\ IsIndexSet(d_out[1].P_t, d_out[1].rank, d_args[1].nt)
        /\ d_out[1].rank = d_args[1].est

\* A call without eps_rank on a matrix with more columns than rows that
\* selected several nodes, a frequency index beyond the row range among them.
C11_Witness ==
    /\ d_out # None /\ d_args[1].eps_rank = None
    /\ d_args[1].no > d_args[1].nt
    /\ d_out[1].rank >= 2
    /\ \E i \in 1..d_out[1].rank : d_out[1].P_o[i] > d_args[1].nt

\* C13: for every scale lamb > 0 there are npt + 1 time breakpoints and
\* 2 npo + 1 frequency breakpoints, npo = max(ceil(log2 lamb), 1) and
\* npt = max(ceil(log2 lamb) - 2, 1); both lists are strictly increasing;
\* the time breakpoints start at 0 and double from one to the next after it;
\* the frequency breakpoints are symmetric about 0, double from one to the
\* next away from 0 on both signs, and run from -lamb to lamb.
StrictlyIncreasing(b) == \A k \in 1..(Len(b) - 1) : RLt(b[k], b[k + 1])

C12_DenseEqualsFast ==
    x_mid # None =>
        /\ x_mid[1].op = "convolution_dense" =>
              x_mid[1].val = Some(convolution(x_h, x_d, x_in, x_mid[1].arg[1], x_beta))
        /\ x_mid[1].op = "convolution" =>
              x_mid[1].val = Some(convolution_dense(x_h, x_d, x_in, x_mid[1].arg[1], x_beta))

\* A dense convolution of two different arrays of 2 x 2 blocks on a handle of
\* rank 3, with a result that is not zero.
C12_Witness ==
    /\ x_mid # None /\ x_mid[1].op = "convolution_dense"
    /\ x_h.rank = 3 /\ x_d = 2
    /\ x_in # ZeroArray(3, 2) /\ x_mid[1].arg[1] # x_in
    /\ x_mid[1].val[1] # ZeroArray(3, 2)

\* C14: barycentric_interpolation on a vector of query points returns one
\* entry per query point: the stored value f_i at the node for a query point
\* that coincides with a node x_i, and the weighted-rational interpolant
\* sum w_i f_i/(x - x_i) / sum w_i/(x - x_i), a number, for every other one.
WeightedRational(xm, x_i, f_i, w_i) ==
    RDiv(RSumTo([k \in 1..Len(x_i) |->
                    RDiv(RMul(w_i[k], f_i[k]), RSub(xm, x_i[k]))], Len(x_i)),
         RSumTo([k \in 1..Len(x_i) |->
                    RDiv(w_i[k], RSub(xm, x_i[k]))], Len(x_i)))

C14_PerPointCoincidence ==
    p_out # None =>
        LET a == p_args[1]
        IN  /\ p_out[1].err = ""
            /\ Len(p_out[1].val[1]) = Len(a.x)
            /\ \A m \in 1..Len(a.x) :
                  IF \E k \in 1..Len(a.x_i) : a.x_i[k] = a.x[m]
                  THEN \A k \in 1..Len(a.x_i) :
                          a.x_i[k] = a.x[m] => p_out[1].val[1][m] = a.f_i[k]
                  ELSE p_out[1].val[1][m] =
                          WeightedRational(a.x[m], a.x_i, a.f_i, a.w_i)

====
